---- MODULE Spec2Model ----
(***************************************************************************)
(* Model of the threshold commit-reveal seed layer of the DRNG             *)
(* (scripts/deploy_testnet.js: FiniteField, ShamirSecretSharing, MPCNode,  *)
(* MPCCoordinator).                                                        *)
(*                                                                         *)
(* Scaling.  The program works on 32-byte buffers and on a 256-bit prime   *)
(* that lies just below 2^256.  The model keeps that shape at a width TLC  *)
(* can enumerate: a buffer is SeedBytes bytes of ByteBits bits each        *)
(* (a 3-bit seed, 0..7) and PRIME is the largest prime below 2^3, so, as   *)
(* in the program, a seed of full width need not be a field element.       *)
(* keccak256 is modelled as an injective tagging of its argument.          *)
(*                                                                         *)
(* The later sections model the Pietrzak VDF (unnamed/part_005), chain B   *)
(* (contracts/ContractD.sol and its variant unnamed/part_000,              *)
(* OnChainVerifier, AxelarGatewayMock), the relayer                        *)
(* (scripts/alexar_relayer.js) and main() of the two workflow scripts      *)
(* (unnamed/part_003, unnamed/part_002).  Each part has a specification of *)
(* its own; the variables of the parts that take no part in a run stay     *)
(* Idle.  SpecField applies the FiniteField operations to operands of      *)
(* either sign; SpecDemo drives the coordinator as runMPCDemo does.        *)
(***************************************************************************)
EXTENDS Integers, Sequences, FiniteSets, TLC

\* ---------------------------------------------------------------- bounds
MaxNodes == 2      \* nodes of a coordinator
MaxIds == 2        \* length of the id list given to reconstructSeed
MaxStray == 3      \* calls explored once the documented call order is left
MaxShares == 3     \* n of a split checked on its own
MaxContribs == 3   \* contributions of a combine checked on its own
MaxT == 8          \* the largest time parameter T of a VDF instance
MaxWord == 1       \* the largest bytes32 value a caller passes to ContractD
MaxOperand == 15   \* the largest magnitude of an operand of a field call
MaxDemoNodes == 3  \* nodes of the coordinator that runMPCDemo drives

\* ------------------------------------------------------ program constants
PRIME == 7
SeedBytes == 3
ByteBits == 1
DigestBits == 4
ChallengeBits == 2
WorkflowT == 8
SessionMessages == 3
N_NODES == 5
THRESHOLD == 3

\* null / undefined; a BigInt field that may be null holds <<>> or <<value>>
NULL == <<>>

\* ============================================================
\* FINITE FIELD ARITHMETIC (mod prime)
\* ============================================================

\* JavaScript's % on BigInt: the remainder takes the sign of the dividend.
JsRem(a, p) == IF a >= 0 THEN a % p ELSE 0 - ((0 - a) % p)

mod_noWrap(a, p) == JsRem(a, p)

mod(a, p) == JsRem(JsRem(a, p) + p, p)

add(a, b, p) == mod(a + b, p)

sub(a, b, p) == mod(a - b, p)

mul(a, b, p) == mod(a * b, p)

RECURSIVE powLoop(_, _, _, _)
powLoop(result, base, exp, p) ==
  IF exp > 0
  THEN powLoop(IF JsRem(exp, 2) = 1 THEN mul(result, base, p) ELSE result,
               mul(base, base, p), exp \div 2, p)
  ELSE result

pow(base, exp, p) == powLoop(1, mod(base, p), exp, p)

inv_wrongExponent(a, p) == pow(a, p - 1, p)

inv(a, p) == pow(a, p - 2, p)

div(a, b, p) == mul(a, inv(b, p), p)

\* ============================================================
\* SHAMIR'S SECRET SHARING
\* ============================================================

\* y = sum over i of coefficients[i] * x^i, folded as the inner loop does
RECURSIVE evalPoly(_, _, _, _)
evalPoly(coefficients, x, i, y) ==
  IF i > Len(coefficients) THEN y
  ELSE evalPoly(coefficients, x, i + 1,
                add(y, mul(coefficients[i], pow(x, i - 1, PRIME), PRIME), PRIME))

split_fromZero(secret, n, coefs) ==
  LET coefficients == <<secret>> \o coefs
  IN  [x \in 1..n |-> [x |-> x - 1, y |-> evalPoly(coefficients, x - 1, 1, 0)]]

\* split(secret, n, t); coefs are the t-1 values drawn from crypto.randomBytes
split(secret, n, coefs) ==
  LET coefficients == <<secret>> \o coefs
  IN  [x \in 1..n |-> [x |-> x, y |-> evalPoly(coefficients, x, 1, 0)]]

\* the number of coefficients split draws for threshold t
NumCoefs(t) == IF t > 1 THEN t - 1 ELSE 0

RECURSIVE lagrangeNum(_, _, _, _)
lagrangeNum(shares, i, j, numerator) ==
  IF j > Len(shares) THEN numerator
  ELSE lagrangeNum(shares, i, j + 1,
         IF i # j THEN mul(numerator, sub(0, shares[j].x, PRIME), PRIME)
                  ELSE numerator)

RECURSIVE lagrangeDen(_, _, _, _)
lagrangeDen(shares, i, j, denominator) ==
  IF j > Len(shares) THEN denominator
  ELSE lagrangeDen(shares, i, j + 1,
         IF i # j THEN mul(denominator, sub(shares[i].x, shares[j].x, PRIME), PRIME)
                  ELSE denominator)

RECURSIVE reconstructLoop(_, _, _)
reconstructLoop(shares, i, secret) ==
  IF i > Len(shares) THEN secret
  ELSE LET lagrangeCoef == div(lagrangeNum(shares, i, 1, 1),
                               lagrangeDen(shares, i, 1, 1), PRIME)
           term == mul(shares[i].y, lagrangeCoef, PRIME)
       IN  reconstructLoop(shares, i + 1, add(secret, term, PRIME))

reconstruct(shares) == reconstructLoop(shares, 1, 0)

\* ============================================================
\* BUFFERS, HASH
\* ============================================================

RECURSIVE Pow2(_)
Pow2(k) == IF k = 0 THEN 1 ELSE 2 * Pow2(k - 1)

ByteVals == 0..(Pow2(ByteBits) - 1)

Buffers == [1..SeedBytes -> ByteVals]

\* bitwise exclusive or of two bytes, bit by bit
RECURSIVE xorBits(_, _, _)
xorBits(a, b, k) ==
  IF k = 0 THEN 0
  ELSE (((a % 2) + (b % 2)) % 2) + 2 * xorBits(a \div 2, b \div 2, k - 1)

xorByte(a, b) == xorBits(a, b, ByteBits)

xorInto_assign(combined, randomness) ==
  [i \in 1..SeedBytes |-> randomness[i]]

\* for (i < 32) combined[i] ^= randomness[i]
xorInto(combined, randomness) ==
  [i \in 1..SeedBytes |-> xorByte(combined[i], randomness[i])]

\* BigInt("0x" + buffer.toString("hex")): big-endian value of the buffer
RECURSIVE bufferToBigInt(_, _)
bufferToBigInt(buf, k) ==
  IF k = 0 THEN 0
  ELSE bufferToBigInt(buf, k - 1) * Pow2(ByteBits) + buf[k]

\* ethers.keccak256, taken as collision-free
keccak256(v) == <<"keccak256", v>>

\* ============================================================
\* MODEL INPUTS
\* ============================================================

\* the values crypto.randomBytes yields for a node's contribution in this model
RandomDraws == {<<0, 0, 1>>, <<1, 1, 0>>}

\* the values split's coefficient draw (randomBytes % PRIME) yields in this model
CoefDraws == {3, PRIME - 1}

SessionIds == {1}

\* the lists of the ids in S, each id once
Orderings(S) ==
  {f \in [1..Cardinality(S) -> S] : \A i, j \in 1..Cardinality(S) : f[i] = f[j] => i = j}

SeqsUpTo(S, k) == UNION {[1..m -> S] : m \in 0..k}

Distinct(ids) == \A i, j \in 1..Len(ids) : ids[i] = ids[j] => i = j

\* ============================================================
\* STATE
\* ============================================================

VARIABLES
  nodes,            \* MPCCoordinator.nodes: the node ids in list order
  t,                \* MPCCoordinator.t
  sessionId,        \* MPCCoordinator.sessionId
  commitments,      \* MPCCoordinator.commitments: node id -> commitment or NULL
  reveals,          \* MPCCoordinator.reveals: Map entries in insertion order
  combinedSeed,     \* MPCCoordinator.combinedSeed
  localRandomness,  \* MPCNode.localRandomness, by node id
  commitment,       \* MPCNode.commitment, by node id
  share,            \* MPCNode.share, by node id
  ret,              \* the last call: operation, arguments, outcome
  phase,            \* progress of the calls so far along the documented order
  aborted,          \* collectReveals has thrown on a commitment mismatch
  stray,            \* the number of calls made outside the documented order
  ss,               \* a split and a reconstruct of ShamirSecretSharing on their own
  cs,               \* a combine of a list of contributions on its own
  ff,               \* a call of a FiniteField operation on its own
  vs,               \* a PietrzakVDF instance and its eval, prove and verify calls
  ld,               \* chain B: ContractD, its gateway and OnChainVerifier
  rl,               \* chain A's gateway events and the relayer's handlers
  wf                \* the position and the locals of a workflow script's main()

mpcVars == <<nodes, t, sessionId, commitments, reveals, combinedSeed,
             localRandomness, commitment, share, ret, phase, aborted, stray>>

pureVars == <<ss, cs, ff>>

laterVars == <<vs, ld, rl, wf>>

vars == <<mpcVars, pureVars, laterVars>>

Idle == [pc |-> "idle"]

n == Len(nodes)

Ids == 1..n

Ret(op, args, ok, value) == [op |-> op, args |-> args, ok |-> ok, value |-> value]

\* new MPCNode(id, key) for each node, then new MPCCoordinator(nodes, threshold)
MpcInit ==
  /\ \E k \in 1..MaxNodes :
       /\ nodes \in Orderings(1..k)
       /\ t \in 0..(k + 1)
       /\ commitments = [id \in 1..k |-> NULL]
       /\ localRandomness = [id \in 1..k |-> NULL]
       /\ commitment = [id \in 1..k |-> NULL]
       /\ share = [id \in 1..k |-> NULL]
  /\ sessionId = NULL
  /\ reveals = <<>>
  /\ combinedSeed = NULL
  /\ ret = Ret("new", <<>>, TRUE, NULL)
  /\ phase = "INIT"
  /\ aborted = FALSE
  /\ stray = 0

\* the parts of the system that take no part in a run
LaterIdle == vs = Idle /\ ld = Idle /\ rl = Idle /\ wf = Idle

Init == MpcInit /\ ss = Idle /\ cs = Idle /\ ff = Idle /\ LaterIdle

\* the documented order INIT -> COMMITTED -> REVEALED -> COMBINED -> SHARED
NextPhase(op, ok) ==
  CASE op = "getCommitment" -> phase
    [] phase = "INIT" /\ op = "collectCommitments" /\ ok -> "COMMITTED"
    [] phase = "COMMITTED" /\ op = "collectReveals" /\ ok -> "REVEALED"
    [] phase = "REVEALED" /\ op = "combineSeed" /\ ok -> "COMBINED"
    [] phase = "COMBINED" /\ op = "distributeSharesToNodes" /\ ok -> "SHARED"
    [] phase = "SHARED" /\ op = "reconstructSeed" -> "SHARED"
    [] OTHER -> "OFFTRACK"

Returned(op, args, ok, value) ==
  /\ ret' = Ret(op, args, ok, value)
  /\ phase' = NextPhase(op, ok)
  /\ stray < MaxStray
  /\ stray' = IF NextPhase(op, ok) = "OFFTRACK" THEN stray + 1 ELSE stray
  /\ UNCHANGED <<pureVars, laterVars>>

\* ============================================================
\* MPC NODE
\* ============================================================

\* MPCNode.generateLocalRandomness called on one node
generateLocalRandomness(id) ==
  \E r \in RandomDraws :
    /\ localRandomness' = [localRandomness EXCEPT ![id] = r]
    /\ commitment' = [commitment EXCEPT ![id] = keccak256(r)]
    /\ Returned("generateLocalRandomness", <<id>>, TRUE, keccak256(r))
    /\ UNCHANGED <<nodes, t, sessionId, commitments, reveals, combinedSeed,
                   share, aborted>>

\* ============================================================
\* MPC COORDINATOR
\* ============================================================

\* Phase 1: every node generates, the coordinator records each commitment
collectCommitments(sid) ==
  \E rs \in [Ids -> RandomDraws] :
    /\ sessionId' = sid
    /\ localRandomness' = rs
    /\ commitment' = [id \in Ids |-> keccak256(rs[id])]
    /\ commitments' = [id \in Ids |-> keccak256(rs[id])]
    /\ Returned("collectCommitments", <<sid>>, TRUE, NULL)
    /\ UNCHANGED <<nodes, t, reveals, combinedSeed, share, aborted>>

mapSet_allEntries(entries, id, v) ==
  Append([k \in 1..Len(entries) |-> [id |-> entries[k].id, randomness |-> v]],
         [id |-> id, randomness |-> v])

\* Map.set: an existing key keeps its position, a new key is appended
mapSet(entries, id, v) ==
  IF \E k \in 1..Len(entries) : entries[k].id = id
  THEN [k \in 1..Len(entries) |->
          IF entries[k].id = id THEN [id |-> id, randomness |-> v] ELSE entries[k]]
  ELSE Append(entries, [id |-> id, randomness |-> v])

\* the loop of collectReveals from list position k on, with the Map so far
RECURSIVE revealLoop(_, _)
revealLoop(k, entries) ==
  IF k > n THEN [reveals |-> entries, error |-> ""]
  ELSE LET id == nodes[k]
           reveal == localRandomness[id]
       IN  IF reveal = NULL
           THEN [reveals |-> entries, error |-> "TypeError"]
           ELSE IF commitments[id] # keccak256(reveal)
           THEN [reveals |-> entries, error |-> "Commitment mismatch"]
           ELSE revealLoop(k + 1, mapSet(entries, id, reveal))

\* Phase 2: collect reveals and verify against commitments; the session counts
\* as aborted when the throw is a mismatch with a commitment that
\* collectCommitments recorded
collectReveals ==
  LET r == revealLoop(1, reveals)
      committed == \A id \in Ids : commitments[id] # NULL
  IN  /\ reveals' = r.reveals
      /\ aborted' = (aborted \/ (r.error = "Commitment mismatch" /\ committed))
      /\ Returned("collectReveals", <<>>, r.error = "", r.error)
      /\ UNCHANGED <<nodes, t, sessionId, commitments, combinedSeed,
                     localRandomness, commitment, share>>

\* the XOR fold over the Map entries, in iteration order
RECURSIVE xorFold(_, _, _)
xorFold(entries, k, combined) ==
  IF k > Len(entries) THEN combined
  ELSE xorFold(entries, k + 1, xorInto(combined, entries[k].randomness))

combine(entries) ==
  bufferToBigInt(xorFold(entries, 1, [i \in 1..SeedBytes |-> 0]), SeedBytes)

\* Phase 3: combine all randomness contributions into the final seed
combineSeed ==
  /\ combinedSeed' = <<combine(reveals)>>
  /\ Returned("combineSeed", <<>>, TRUE, combine(reveals))
  /\ UNCHANGED <<nodes, t, sessionId, commitments, reveals,
                 localRandomness, commitment, share, aborted>>

storeShares_byId(shares) == [id \in Ids |-> shares[id]]

\* for (i < nodes.length) nodes[i].storeShare(shares[i]): the share each node
\* holds after the loop
storeShares(shares) ==
  [id \in Ids |-> LET i == CHOOSE k \in 1..n : nodes[k] = id IN shares[i]]

\* Phase 4: split the seed, store share i in the node at list position i
distributeSharesToNodes ==
  IF combinedSeed = NULL
  THEN \* null * 1n in FiniteField.mul throws before any share is stored
       /\ Returned("distributeSharesToNodes", <<>>, FALSE, "TypeError")
       /\ UNCHANGED <<nodes, t, sessionId, commitments, reveals, combinedSeed,
                      localRandomness, commitment, share, aborted>>
  ELSE \E coefs \in [1..NumCoefs(t) -> CoefDraws] :
         LET shares == split(combinedSeed[1], n, coefs)
         IN  /\ share' = storeShares(shares)
             /\ Returned("distributeSharesToNodes", <<>>, TRUE, NULL)
             /\ UNCHANGED <<nodes, t, sessionId, commitments, reveals, combinedSeed,
                            localRandomness, commitment, aborted>>

\* the shares gathered for the ids, in the order given; unknown ids and
\* nodes without a share are skipped
RECURSIVE gatherShares(_, _, _)
gatherShares(ids, k, shares) ==
  IF k > Len(ids) THEN shares
  ELSE gatherShares(ids, k + 1,
         IF ids[k] \in Ids /\ share[ids[k]] # NULL
         THEN Append(shares, share[ids[k]]) ELSE shares)

slice0_oneLess(s, k) == SubSeq(s, 1, IF k - 1 < Len(s) THEN k - 1 ELSE Len(s))

\* Array.prototype.slice(0, k)
slice0(s, k) == SubSeq(s, 1, IF k < Len(s) THEN k ELSE Len(s))

tooFew_offByOne(ids) == Len(ids) <= t

\* the length check of reconstructSeed
tooFew(ids) == Len(ids) < t

reconstructSeedValue(ids) == reconstruct(slice0(gatherShares(ids, 1, <<>>), t))

\* Phase 5: reconstruct the seed from the shares of the named nodes
reconstructSeed(ids) ==
  /\ IF tooFew(ids)
     THEN Returned("reconstructSeed", ids, FALSE, "Need at least t nodes")
     ELSE Returned("reconstructSeed", ids, TRUE, reconstructSeedValue(ids))
  /\ UNCHANGED <<nodes, t, sessionId, commitments, reveals, combinedSeed,
                 localRandomness, commitment, share, aborted>>

\* keccak256 of the combined seed
getCommitment ==
  /\ IF combinedSeed = NULL
     THEN Returned("getCommitment", <<>>, FALSE, "TypeError")
     ELSE Returned("getCommitment", <<>>, TRUE, keccak256(combinedSeed[1]))
  /\ UNCHANGED <<nodes, t, sessionId, commitments, reveals, combinedSeed,
                 localRandomness, commitment, share, aborted>>

IdLists == SeqsUpTo(1..(n + 1), MaxIds)

Next ==
  \/ \E id \in Ids : generateLocalRandomness(id)
  \/ \E sid \in SessionIds : collectCommitments(sid)
  \/ collectReveals
  \/ combineSeed
  \/ distributeSharesToNodes
  \/ \E ids \in IdLists : reconstructSeed(ids)
  \/ getCommitment

Spec == Init /\ [][Next]_vars

\* ============================================================
\* ShamirSecretSharing.split and .reconstruct on their own
\* ============================================================

\* a coordinator that is not part of the run
MpcIdle ==
  /\ nodes = <<>>
  /\ t = 0
  /\ sessionId = NULL
  /\ commitments = <<>>
  /\ reveals = <<>>
  /\ combinedSeed = NULL
  /\ localRandomness = <<>>
  /\ commitment = <<>>
  /\ share = <<>>
  /\ ret = Ret("new", <<>>, TRUE, NULL)
  /\ phase = "INIT"
  /\ aborted = FALSE
  /\ stray = 0

SeedVals == 0..(Pow2(ByteBits * SeedBytes) - 1)

ShamirInit ==
  /\ MpcIdle
  /\ cs = Idle
  /\ ff = Idle
  /\ LaterIdle
  /\ \E s \in SeedVals, k \in 1..MaxShares :
       \E th \in 1..k :
         ss = [pc |-> "new", secret |-> s, n |-> k, t |-> th, coefs |-> <<>>,
               shares |-> <<>>, picked |-> <<>>, ok |-> TRUE, value |-> 0]

\* shares = ShamirSecretSharing.split(secret, n, t)
ShamirSplit ==
  /\ ss.pc = "new"
  /\ \E coefs \in [1..NumCoefs(ss.t) -> 0..(PRIME - 1)] :
       ss' = [ss EXCEPT !.pc = "split", !.coefs = coefs,
                        !.shares = split(ss.secret, ss.n, coefs)]
  /\ UNCHANGED <<mpcVars, cs, ff, laterVars>>

\* the lists of distinct share indexes, of every length up to n
PickLists(k) == {p \in SeqsUpTo(1..k, k) : Distinct(p)}

\* ShamirSecretSharing.reconstruct(the picked shares, in the order picked);
\* reconstruct has no throwing path, so it always returns
ShamirReconstruct ==
  /\ ss.pc = "split"
  /\ \E p \in PickLists(ss.n) :
       ss' = [ss EXCEPT !.pc = "done", !.picked = p, !.ok = TRUE,
                        !.value = reconstruct([k \in 1..Len(p) |-> ss.shares[p[k]]])]
  /\ UNCHANGED <<mpcVars, cs, ff, laterVars>>

ShamirNext == ShamirSplit \/ ShamirReconstruct

SpecShamir == ShamirInit /\ [][ShamirNext]_vars

\* ============================================================
\* runMPCDemo: the coordinator driven in the documented order
\* ============================================================

\* nodes with ids 1..N_NODES in ascending order and a threshold within
\* [1, N_NODES]; the model runs the demo for every such configuration of up
\* to MaxDemoNodes nodes
DemoInit ==
  /\ \E k \in 1..MaxDemoNodes :
       /\ nodes = [i \in 1..k |-> i]
       /\ t \in 1..k
       /\ commitments = [id \in 1..k |-> NULL]
       /\ localRandomness = [id \in 1..k |-> NULL]
       /\ commitment = [id \in 1..k |-> NULL]
       /\ share = [id \in 1..k |-> NULL]
  /\ sessionId = NULL
  /\ reveals = <<>>
  /\ combinedSeed = NULL
  /\ ret = Ret("new", <<>>, TRUE, NULL)
  /\ phase = "INIT"
  /\ aborted = FALSE
  /\ stray = 0
  /\ ss = Idle /\ cs = Idle /\ ff = Idle
  /\ LaterIdle

DemoCollectCommitments ==
  phase = "INIT" /\ \E sid \in SessionIds : collectCommitments(sid)

DemoCollectReveals == phase = "COMMITTED" /\ collectReveals

DemoCombineSeed == phase = "REVEALED" /\ combineSeed

DemoDistributeShares == phase = "COMBINED" /\ distributeSharesToNodes

DemoGetCommitment == phase = "SHARED" /\ getCommitment

\* the reconstruction scenarios: all nodes, a subset that meets the
\* threshold, a subset below it; the model takes every list of distinct ids
DemoReconstruct ==
  phase = "SHARED" /\ \E ids \in PickLists(n) : reconstructSeed(ids)

DemoNext ==
  \/ DemoCollectCommitments
  \/ DemoCollectReveals
  \/ DemoCombineSeed
  \/ DemoDistributeShares
  \/ DemoGetCommitment
  \/ DemoReconstruct

SpecDemo == DemoInit /\ [][DemoNext]_vars

\* ============================================================
\* The FiniteField operations on their own
\* ============================================================

\* BigInt operands of either sign
Operands == (0 - MaxOperand)..MaxOperand

FieldInit ==
  /\ MpcIdle
  /\ ss = Idle
  /\ cs = Idle
  /\ LaterIdle
  /\ \E a \in Operands, b \in Operands :
       ff = [pc |-> "new", op |-> "", a |-> a, b |-> b, ok |-> TRUE, value |-> 0]

\* no path of a FiniteField operation throws for BigInt operands and the
\* default modulus: the call returns value
FieldReturned(op, value) ==
  /\ ff.pc = "new"
  /\ ff' = [ff EXCEPT !.pc = "done", !.op = op, !.ok = TRUE, !.value = value]
  /\ UNCHANGED <<mpcVars, ss, cs, laterVars>>

FieldMod == FieldReturned("mod", mod(ff.a, PRIME))

FieldAdd == FieldReturned("add", add(ff.a, ff.b, PRIME))

FieldSub == FieldReturned("sub", sub(ff.a, ff.b, PRIME))

FieldMul == FieldReturned("mul", mul(ff.a, ff.b, PRIME))

FieldPow == FieldReturned("pow", pow(ff.a, ff.b, PRIME))

FieldInv == FieldReturned("inv", inv(ff.b, PRIME))

FieldDiv == FieldReturned("div", div(ff.a, ff.b, PRIME))

FieldNext ==
  \/ FieldMod
  \/ FieldAdd
  \/ FieldSub
  \/ FieldMul
  \/ FieldPow
  \/ FieldInv
  \/ FieldDiv

SpecField == FieldInit /\ [][FieldNext]_vars

\* ============================================================
\* The XOR fold of combineSeed on its own
\* ============================================================

CombineInit ==
  /\ MpcIdle
  /\ ss = Idle
  /\ ff = Idle
  /\ LaterIdle
  /\ \E k \in 1..MaxContribs :
       \E rs \in [1..k -> Buffers] :
         cs = [pc |-> "new",
               entries |-> [i \in 1..k |-> [id |-> i, randomness |-> rs[i]]],
               order |-> <<>>, value |-> 0]

\* the fold over the same Map entries, recorded in the order f
CombineReordered ==
  /\ cs.pc = "new"
  /\ \E f \in Orderings(1..Len(cs.entries)) :
       cs' = [cs EXCEPT !.pc = "done", !.order = f,
                        !.value = combine([k \in 1..Len(f) |-> cs.entries[f[k]]])]
  /\ UNCHANGED <<mpcVars, ss, ff, laterVars>>

CombineNext == CombineReordered

SpecCombine == CombineInit /\ [][CombineNext]_vars

\* ============================================================
\* PIETRZAK VDF (unnamed/part_005)
\* ============================================================
\* The program squares modulo a 1024-bit product of two primes and draws
\* 128-bit challenges from a 256-bit digest.  The model keeps the shape at a
\* width TLC can enumerate: the modulus is a product of two small primes, the
\* digest has DigestBits bits and a challenge is its upper ChallengeBits bits.
\* sha256 is modelled as a fixed mixing of the fields of the hashed string.

\* modPow: the square-and-multiply loop
RECURSIVE modPowLoop(_, _, _, _)
modPowLoop(result, base, exp, m) ==
  IF exp > 0
    THEN modPowLoop(IF exp % 2 = 1 THEN (result * base) % m ELSE result,
                    (base * base) % m, exp \div 2, m)
    ELSE result

modPow(base, exp, m) ==
  IF m = 1 THEN 0 ELSE modPowLoop(1, JsRem(JsRem(base, m) + m, m), exp, m)

\* crypto.createHash('sha256').update(data).digest(): data is the string
\* "x:y:mu:N", given here as the sequence of its fields
RECURSIVE sha256Loop(_, _, _)
sha256Loop(data, k, h) ==
  IF k > Len(data) THEN h
  ELSE sha256Loop(data, k + 1, ((h * 5) + data[k] + 3) % Pow2(DigestBits))

sha256(data) == sha256Loop(data, 1, 1)

\* the first half of the digest's hex digits, as an integer
hashToChallenge(x, y, mu, N) ==
  sha256(<<x, y, mu, N>>) \div Pow2(DigestBits - ChallengeBits)

squareStep_double(y, N) == (y + y) % N

\* y = (y * y) % this.N
squareStep(y, N) == (y * y) % N

\* the values y takes in eval: before the loop and after each iteration
RECURSIVE squarings(_, _, _)
squarings(y, k, N) ==
  IF k <= 0 THEN <<y>> ELSE <<y>> \o squarings(squareStep(y, N), k - 1, N)

evalTrace(x, N, T) == squarings(x % N, T, N)

\* PietrzakVDF.eval(x)
eval(x, N, T) == LET tr == evalTrace(x, N, T) IN tr[Len(tr)]

\* the inner loop of prove: mu squared halfT times
RECURSIVE repeatSquare(_, _, _)
repeatSquare(mu, k, N) ==
  IF k <= 0 THEN mu ELSE repeatSquare((mu * mu) % N, k - 1, N)

\* currX = (xr * mu) % this.N
nextX(currX, mu, r, N) == (modPow(currX, r, N) * mu) % N

\* currY = (mur * currY) % this.N
nextY(currY, mu, r, N) == (modPow(mu, r, N) * currY) % N

RECURSIVE proveLoop(_, _, _, _, _)
proveLoop(T, currX, currY, N, proof) ==
  IF T >= 2
    THEN LET halfT == T \div 2
             mu == repeatSquare(currX, halfT, N)
             r == hashToChallenge(currX, currY, mu, N)
         IN proveLoop(halfT, nextX(currX, mu, r, N), nextY(currY, mu, r, N),
                      N, Append(proof, mu))
    ELSE proof

prove_fromHalf(x, y, N, T) == proveLoop(T \div 2, x, y, N, <<>>)

\* PietrzakVDF.prove(x, y)
prove(x, y, N, T) == proveLoop(T, x, y, N, <<>>)

finalCheck_noSquare(currX, currY, N) == currX % N = currY

\* expected = (currX * currX) % this.N; valid = expected === currY
finalCheck(currX, currY, N) == (currX * currX) % N = currY

\* the loop of verify; idx counts the proof elements consumed
RECURSIVE verifyLoop(_, _, _, _, _, _)
verifyLoop(T, currX, currY, N, proof, idx) ==
  IF T >= 2
    THEN IF idx >= Len(proof) THEN FALSE
         ELSE LET halfT == T \div 2
                  mu == proof[idx + 1]
                  r == hashToChallenge(currX, currY, mu, N)
              IN verifyLoop(halfT, nextX(currX, mu, r, N),
                            nextY(currY, mu, r, N), N, proof, idx + 1)
    ELSE finalCheck(currX, currY, N)

verify_fromHalf(x, y, proof, N, T) == verifyLoop(T \div 2, x, y, N, proof, 0)

\* PietrzakVDF.verify(x, y, proof)
verify(x, y, proof, N, T) == verifyLoop(T, x, y, N, proof, 0)

\* N_DEMO = P * Q
Moduli == {3 * 5, 3 * 7}

\* new PietrzakVDF(N, T) and an input x: the constructor stores N and T and
\* has no other path
VdfInit ==
  /\ MpcIdle
  /\ ss = Idle /\ cs = Idle /\ ff = Idle /\ ld = Idle /\ rl = Idle /\ wf = Idle
  /\ \E N \in Moduli, T \in 0..MaxT :
       \E x \in 0..N :
         vs = [pc |-> "new", N |-> N, T |-> T, x |-> x, trace |-> <<>>,
               y |-> 0, proof |-> <<>>, vy |-> 0, vproof |-> <<>>,
               valid |-> FALSE]

\* y = vdf.eval(x)
VdfEval ==
  /\ vs.pc = "new"
  /\ vs' = [vs EXCEPT !.pc = "evaluated",
                      !.trace = evalTrace(vs.x, vs.N, vs.T),
                      !.y = eval(vs.x, vs.N, vs.T)]
  /\ UNCHANGED <<mpcVars, pureVars, ld, rl, wf>>

\* proof = vdf.prove(x, y)
VdfProve ==
  /\ vs.pc = "evaluated"
  /\ vs' = [vs EXCEPT !.pc = "proved",
                      !.proof = prove(vs.x, vs.y, vs.N, vs.T)]
  /\ UNCHANGED <<mpcVars, pureVars, ld, rl, wf>>

\* the proofs a caller can derive from proof: the proof itself, one element
\* replaced, the last element dropped, one element appended
ProofVariants(proof, N) ==
  {proof}
  \cup {[proof EXCEPT ![i] = v] : i \in 1..Len(proof), v \in 0..(N - 1)}
  \cup {SubSeq(proof, 1, Len(proof) - 1) : i \in 1..Len(proof)}
  \cup {Append(proof, v) : v \in 0..(N - 1)}

\* vdf.verify(x, y', proof'): the computed output with a derived proof, or
\* any output with the computed proof
VdfVerify ==
  /\ vs.pc = "proved"
  /\ \E yy \in 0..(vs.N - 1), pf \in ProofVariants(vs.proof, vs.N) :
       /\ yy = vs.y \/ pf = vs.proof
       /\ vs' = [vs EXCEPT !.pc = "verified", !.vy = yy, !.vproof = pf,
                           !.valid = verify(vs.x, yy, pf, vs.N, vs.T)]
  /\ UNCHANGED <<mpcVars, pureVars, ld, rl, wf>>

VdfNext == VdfEval \/ VdfProve \/ VdfVerify

SpecVDF == VdfInit /\ [][VdfNext]_vars

\* ============================================================
\* CHAIN B: ContractD, OnChainVerifier (contracts/, unnamed/part_000)
\* ============================================================
\* A bytes32 is a tagged value: <<"b32", k>> is the word whose integer value
\* is k, keccak256 of a byte string is the tagged string (see keccak256).
\* abi.encodePacked of bytes32 values is the sequence of those values.

W(k) == <<"b32", k>>

\* bytes32(0), the value of a mapping entry never written
Zero == W(0)

Words == {W(k) : k \in 0..MaxWord}

\* the session ids in use on chain B
Sessions == {1, 2}

\* the two ContractD sources of the repository
Versions == {"ContractD.sol", "part_000"}

\* ------------------------------------------------------------
\* the values the workflow scripts send to ContractD
\* (unnamed/part_003 complete, unnamed/part_002 fast)
\* ------------------------------------------------------------
\* The scripts run the VDF with N_DEMO, which is wider than a bytes32, and
\* T = 8192.  In the model a bytes32 has WordBits bits and the workflow's
\* modulus is a product of two primes that is wider than that.

WordBits == ByteBits * SeedBytes

WorkflowN == 5 * 7

\* BigInt(h) for a bytes32 h; the integer read from a digest is a fixed
\* mixing of the integers of the hashed values
RECURSIVE BigIntOf(_), digestValue(_, _, _)
digestValue(data, k, h) ==
  IF k > Len(data) THEN h
  ELSE digestValue(data, k + 1,
                   ((h * 5) + (BigIntOf(data[k]) * 5) + 5) % Pow2(WordBits))

BigIntOf(w) == IF w[1] = "b32" THEN w[2] ELSE digestValue(w[2], 1, 1)

\* complete workflow: vdfInput = BigInt(commitment) % N_DEMO
vdfInput(c) == BigIntOf(c) % WorkflowN

\* the leading digits of y that fit a bytes32
RECURSIVE leadingBits(_)
leadingBits(y) == IF y < Pow2(WordBits) THEN y ELSE leadingBits(y \div 2)

\* complete workflow: zeroPadValue('0x' + vdfOutput.toString(16).slice(0, 64), 32)
vdfOutputBytes32(y) == W(leadingBits(y))

\* fast workflow: toBeHex(y % (2n ** 256n), 32)
vdfOutputBytes32Fast(y) == W(y % Pow2(WordBits))

\* keccak256(toUtf8Bytes(vdfProof.map(...).join(',')))
vdfProofHash(proof) == keccak256(proof)

\* keccak256(concat([vdfOutputBytes32, reconstructedHex]))
expectedRandomness(Y, S) == keccak256(<<Y>> \o <<S>>)

\* the VDF output and proof hash an honest script sends for commitment c
honestOutput(c) == eval(vdfInput(c), WorkflowN, WorkflowT)

honestProofHash(c) ==
  vdfProofHash(prove(vdfInput(c), honestOutput(c), WorkflowN, WorkflowT))

\* ------------------------------------------------------------

\* the outcome of a call: a revert leaves the state as it was
Call(ok, error, st) == [ok |-> ok, error |-> error, st |-> st]

\* ContractD.storeCommitment
storeCommitment(L, s, c) == Call(TRUE, "", [L EXCEPT !.commitments[s] = c])

\* ContractD.execute, given the answer of gateway.validateContractCall;
\* part_000 has no such function and no fallback
execute(L, approved, s, c) ==
  IF L.version = "ContractD.sol"
    THEN IF approved
           THEN Call(TRUE, "", [L EXCEPT !.commitments[s] = c])
           ELSE Call(FALSE, "Not approved by gateway", L)
    ELSE Call(FALSE, "no such function", L)

\* part_000: VDF_Verify
VDF_Verify(s, Y, pi) == TRUE

\* ContractD.submitVDFProof
submitVDFProof(L, s, Y, pi) ==
  IF L.version = "ContractD.sol"
    THEN IF Y # Zero
           THEN Call(TRUE, "", [L EXCEPT !.vdfOutputs[s] = Y])
           ELSE Call(FALSE, "Invalid VDF output", L)
    ELSE IF VDF_Verify(s, Y, pi)
           THEN Call(TRUE, "", [L EXCEPT !.vdfOutputs[s] = Y])
           ELSE Call(FALSE, "VDF Proof is invalid", L)

\* OnChainVerifier.receiveRandomness
receiveRandomness(L, s, randomness) ==
  [L EXCEPT !.lastRandomness = randomness, !.lastSessionId = s]

seedMatches_always(seed, c) == TRUE

\* keccak256(abi.encodePacked(_seed)) == _commitment
seedMatches(seed, c) == keccak256(<<seed>>) = c

finalRandomness_swapped(Y, seed) == keccak256(<<seed, Y>>)

\* keccak256(abi.encodePacked(_Y, _seed))
finalRandomness(Y, seed) == keccak256(<<Y, seed>>)

\* ContractD.submitSeed; the two sources make the same two checks in
\* opposite orders
submitSeed(L, s, seed) ==
  LET Y == L.vdfOutputs[s]
      c == L.commitments[s]
      first == IF L.version = "ContractD.sol" THEN "VDF" ELSE "seed"
  IN IF first = "VDF" /\ Y = Zero THEN Call(FALSE, "VDF not submitted", L)
     ELSE IF ~seedMatches(seed, c)
            THEN Call(FALSE, IF first = "VDF" THEN "Invalid seed"
                             ELSE "MPC Reveal Failed", L)
     ELSE IF Y = Zero THEN Call(FALSE, "VDF output not found", L)
     ELSE Call(TRUE, "", receiveRandomness(L, s, finalRandomness(Y, seed)))

\* string public constant SOURCE_CHAIN
SOURCE_CHAIN == "ethereum-sepolia"

\* address(0), the address of ContractS on chain A, another account's address
ZeroAddress == "address(0)"

ContractSAddress == "ContractS"

Addresses == {ContractSAddress, "0xOther"}

\* ContractD.setSourceContract; part_000 takes the address in its constructor
\* and has no such function
setSourceContract(L, a) ==
  IF L.version = "ContractD.sol"
    THEN IF L.sourceContract = ZeroAddress
           THEN Call(TRUE, "", [L EXCEPT !.sourceContract = a])
           ELSE Call(FALSE, "Already set", L)
    ELSE Call(FALSE, "no such function", L)

\* the deployed contracts of chain B
Deployed(version) ==
  [pc |-> "deployed", version |-> version,
   sourceContract |-> IF version = "ContractD.sol" THEN ZeroAddress
                      ELSE ContractSAddress,
   commitments |-> [s \in Sessions |-> Zero],
   vdfOutputs |-> [s \in Sessions |-> Zero],
   lastRandomness |-> Zero, lastSessionId |-> 0,
   ret |-> Ret("deploy", <<>>, TRUE, "")]

LedgerInit ==
  /\ MpcIdle
  /\ ss = Idle /\ cs = Idle /\ ff = Idle /\ vs = Idle /\ rl = Idle /\ wf = Idle
  /\ \E version \in Versions : ld = Deployed(version)

\* a transaction calling one function of ContractD; anyone may send it
Mined(op, args, call) ==
  /\ ld' = [call.st EXCEPT !.ret = Ret(op, args, call.ok, call.error)]
  /\ UNCHANGED <<mpcVars, pureVars, vs, rl, wf>>

\* the values a caller passes as a commitment: none, or the hash of a seed
CommitmentArgs == {Zero} \cup {keccak256(<<w>>) : w \in Words}

Tx_storeCommitment ==
  \E s \in Sessions, c \in CommitmentArgs :
    Mined("storeCommitment", <<s, c>>, storeCommitment(ld, s, c))

Tx_execute ==
  \E approved \in BOOLEAN, s \in Sessions, c \in CommitmentArgs :
    Mined("execute", <<approved, s, c>>, execute(ld, approved, s, c))

\* the values a caller passes as a VDF output and as a proof hash
OutputArgs ==
  {Zero, W(1)} \cup {vdfOutputBytes32(honestOutput(c)) : c \in CommitmentArgs}

ProofArgs == {Zero} \cup {honestProofHash(c) : c \in CommitmentArgs}

Tx_submitVDFProof ==
  \E s \in Sessions, Y \in OutputArgs, pi \in ProofArgs :
    Mined("submitVDFProof", <<s, Y, pi>>, submitVDFProof(ld, s, Y, pi))

Tx_submitSeed ==
  \E s \in Sessions, seed \in Words :
    Mined("submitSeed", <<s, seed>>, submitSeed(ld, s, seed))

\* OnChainVerifier.receiveRandomness is external and has no check of its
\* caller: any account may call it with values of its choice
RandomnessArgs == {Zero, W(1)}

Tx_receiveRandomness ==
  \E s \in Sessions, r \in RandomnessArgs :
    Mined("receiveRandomness", <<s, r>>, Call(TRUE, "", receiveRandomness(ld, s, r)))

LedgerNext ==
  \/ Tx_storeCommitment
  \/ Tx_execute
  \/ Tx_submitVDFProof
  \/ Tx_submitSeed
  \/ Tx_receiveRandomness

SpecLedger == LedgerInit /\ [][LedgerNext]_vars

\* ------------------------------------------------------------
\* ContractD.execute with the source of the relayed message
\* ------------------------------------------------------------

\* the sourceChain strings a caller of execute passes
SourceChains == {SOURCE_CHAIN, "other-chain"}

Tx_setSourceContract ==
  \E a \in Addresses :
    Mined("setSourceContract", <<a>>, setSourceContract(ld, a))

\* execute(commandId, sourceChain, sourceAddress, payload): the two source
\* arguments are handed to gateway.validateContractCall and used nowhere
\* else; approved is the gateway's answer for them, and the gateway approves
\* a call for whatever source its validators attested
Tx_executeFrom ==
  \E approved \in BOOLEAN, sourceChain \in SourceChains,
     sourceAddress \in Addresses, s \in Sessions, c \in CommitmentArgs :
    Mined("execute", <<approved, sourceChain, sourceAddress, s, c>>,
          execute(ld, approved, s, c))

ExecuteNext == Tx_setSourceContract \/ Tx_executeFrom

SpecExecute == LedgerInit /\ [][ExecuteNext]_vars

\* ============================================================
\* RELAYER (scripts/alexar_relayer.js, contracts/AxelarGatewayMock.sol)
\* ============================================================
\* Chain A's gateway emits one MessageSent event per sendMessage call.  The
\* relayer's listener is invoked once per event, in emission order; each
\* invocation is an async function of its own, so the receiveMessage
\* transactions of invoked handlers reach chain B in any order.

\* selector and abi-encoded arguments of a ContractD function
Payload(fn, args) == [fn |-> fn, args |-> args]

\* AxelarGatewayMock.sendMessage: emit MessageSent(..., payload)
sendMessage(R, payload) == [R EXCEPT !.events = Append(R.events, payload)]

\* destinationContract.call(payload)
destinationCall(L, payload) ==
  CASE payload.fn = "storeCommitment" ->
         storeCommitment(L, payload.args[1], payload.args[2])
    [] payload.fn = "submitVDFProof" ->
         submitVDFProof(L, payload.args[1], payload.args[2], payload.args[3])
    [] payload.fn = "submitSeed" ->
         submitSeed(L, payload.args[1], payload.args[2])
    [] OTHER -> Call(FALSE, "no such function", L)

\* AxelarGatewayMock.receiveMessage
receiveMessage(L, payload) ==
  LET call == destinationCall(L, payload)
  IN IF call.ok THEN call
     ELSE Call(FALSE, "AxelarMock: Call to destination contract failed", L)

\* VDF script: vdfOutput and vdfProof are digests of the commitment
mockVdfOutput(c) == keccak256(<<c, <<"str", "VDF_OUTPUT">>>>)

mockVdfProof(Y) == keccak256(<<Y, <<"str", "VDF_PROOF">>>>)

\* the relayer is listening, both chains are deployed, and the MPC script
\* has drawn the seed of session 1
RelayInit ==
  /\ MpcIdle
  /\ ss = Idle /\ cs = Idle /\ ff = Idle /\ vs = Idle /\ wf = Idle
  /\ \E version \in Versions : ld = Deployed(version)
  /\ \E seed \in Words :
       rl = [pc |-> "listening", sessionId |-> 1, seed |-> seed,
             events |-> <<>>, invoked |-> 0, done |-> {}, delivered |-> {}]

\* ContractS.SubmitCommitment(H(seed)): sendMessage(storeCommitment payload)
SendCommitment ==
  /\ Len(rl.events) = 0
  /\ rl' = sendMessage(rl, Payload("storeCommitment",
                                   <<rl.sessionId, keccak256(<<rl.seed>>)>>))
  /\ UNCHANGED <<mpcVars, pureVars, vs, ld, wf>>

\* VDF script main(sessionId, commitment): sendMessage(submitVDFProof payload)
SendVDFProof ==
  /\ Len(rl.events) = 1
  /\ LET Y == mockVdfOutput(keccak256(<<rl.seed>>))
     IN rl' = sendMessage(rl, Payload("submitVDFProof",
                                      <<rl.sessionId, Y, mockVdfProof(Y)>>))
  /\ UNCHANGED <<mpcVars, pureVars, vs, ld, wf>>

\* MPC script revealSeed(sessionId): sendMessage(submitSeed payload)
SendSeed ==
  /\ Len(rl.events) = 2
  /\ rl' = sendMessage(rl, Payload("submitSeed", <<rl.sessionId, rl.seed>>))
  /\ UNCHANGED <<mpcVars, pureVars, vs, ld, wf>>

\* gatewayA.on("MessageSent", ...): the listener is called for the next event
\* and runs up to its await of gatewayB.receiveMessage(payload)
HandlerInvoked ==
  /\ rl.invoked < Len(rl.events)
  /\ rl' = [rl EXCEPT !.invoked = rl.invoked + 1]
  /\ UNCHANGED <<mpcVars, pureVars, vs, ld, wf>>

\* the handler of event i: gatewayB.receiveMessage(payload) and tx.wait();
\* a revert is thrown to the handler, which logs it and returns
HandlerRelayed(i) ==
  /\ i \in 1..rl.invoked
  /\ i \notin rl.done
  /\ LET call == receiveMessage(ld, rl.events[i])
     IN /\ ld' = [call.st EXCEPT
                    !.ret = Ret(rl.events[i].fn, rl.events[i].args,
                                call.ok, call.error)]
        /\ rl' = [rl EXCEPT !.done = rl.done \cup {i},
                            !.delivered = IF call.ok
                                            THEN rl.delivered \cup {i}
                                            ELSE rl.delivered]
  /\ UNCHANGED <<mpcVars, pureVars, vs, wf>>

RelayNext ==
  \/ SendCommitment
  \/ SendVDFProof
  \/ SendSeed
  \/ HandlerInvoked
  \/ \E i \in 1..SessionMessages : HandlerRelayed(i)

SpecRelay == RelayInit /\ [][RelayNext]_vars

\* the event loop calls the listener for every event, and every
\* transaction a handler sends is mined or rejected
SpecRelayLive ==
  /\ SpecRelay
  /\ WF_vars(HandlerInvoked)
  /\ \A i \in 1..SessionMessages : WF_vars(HandlerRelayed(i))

\* ============================================================
\* WORKFLOW SCRIPTS: main() of unnamed/part_003 (complete) and of
\* unnamed/part_002 (fast)
\* ============================================================
\* One step per awaited call or synchronous block of main(), in program
\* order.  log lists the steps done so far.  The coordinator runs with
\* N_NODES nodes and THRESHOLD shares; ContractD is chain B's (ld).

Scripts == {"complete", "fast"}

availableNodes == <<1, 2, 4>>

WfInit ==
  /\ MpcIdle
  /\ ss = Idle /\ cs = Idle /\ ff = Idle /\ vs = Idle /\ rl = Idle
  /\ \E version \in Versions : ld = Deployed(version)
  /\ \E script \in Scripts :
       wf = [script |-> script,
             pc |-> IF script = "complete" THEN "RequestRandomness"
                    ELSE "collectCommitments",
             sessionId |-> 1, localRandomness |-> <<>>, reveals |-> <<>>,
             combinedSeed |-> 0, shares |-> <<>>, seedHex |-> Zero,
             commitment |-> Zero, x |-> 0, y |-> 0, vdfValid |-> FALSE,
             vdfOutputBytes32 |-> Zero, vdfProofHash |-> Zero,
             reconstructedHex |-> Zero, log |-> <<>>]

\* the step at wf.pc is done and main() moves to pc
Step(pc, w) == wf' = [w EXCEPT !.pc = pc, !.log = Append(wf.log, wf.pc)]

\* complete, step 1: contractS.RequestRandomness(sessionId)
WfRequestRandomness ==
  /\ wf.pc = "RequestRandomness"
  /\ Step("collectCommitments", wf)
  /\ UNCHANGED <<mpcVars, pureVars, vs, ld, rl>>

\* coordinator.collectCommitments(sessionId): every node draws its randomness
WfCollectCommitments ==
  /\ wf.pc = "collectCommitments"
  /\ \E rs \in [1..N_NODES -> RandomDraws] :
       Step("collectReveals", [wf EXCEPT !.localRandomness = rs])
  /\ UNCHANGED <<mpcVars, pureVars, vs, ld, rl>>

\* coordinator.collectReveals(): each reveal is the randomness just committed
\* to, so every hash check passes and every reveal is recorded
WfCollectReveals ==
  /\ wf.pc = "collectReveals"
  /\ Step("combineSeed",
          [wf EXCEPT !.reveals = [k \in 1..N_NODES |->
                        [id |-> k, randomness |-> wf.localRandomness[k]]]])
  /\ UNCHANGED <<mpcVars, pureVars, vs, ld, rl>>

\* combineSeed(), distributeSharesToNodes(), seedHex, commitment
WfCombineSeed ==
  /\ wf.pc = "combineSeed"
  /\ \E coefs \in [1..NumCoefs(THRESHOLD) -> CoefDraws] :
       LET seed == combine(wf.reveals)
       IN Step("vdf", [wf EXCEPT !.combinedSeed = seed,
                                 !.shares = split(seed, N_NODES, coefs),
                                 !.seedHex = W(seed),
                                 !.commitment = keccak256(<<W(seed)>>)])
  /\ UNCHANGED <<mpcVars, pureVars, vs, ld, rl>>

\* the VDF block: input, eval, prove, verify, bytes32 output, proof hash.
\* The complete script takes the input from the commitment, the fast one
\* from seedHex.
WfVdf ==
  /\ wf.pc = "vdf"
  /\ LET x == IF wf.script = "complete" THEN vdfInput(wf.commitment)
              ELSE BigIntOf(wf.seedHex) % WorkflowN
         y == eval(x, WorkflowN, WorkflowT)
         proof == prove(x, y, WorkflowN, WorkflowT)
     IN Step(IF wf.script = "complete" THEN "SubmitCommitment"
             ELSE "storeCommitment",
             [wf EXCEPT !.x = x, !.y = y,
                        !.vdfValid = verify(x, y, proof, WorkflowN, WorkflowT),
                        !.vdfOutputBytes32 =
                           IF wf.script = "complete" THEN vdfOutputBytes32(y)
                           ELSE vdfOutputBytes32Fast(y),
                        !.vdfProofHash = vdfProofHash(proof)])
  /\ UNCHANGED <<mpcVars, pureVars, vs, ld, rl>>

\* complete, step 4: contractS.SubmitCommitment(commitment) on chain A
WfSubmitCommitment ==
  /\ wf.pc = "SubmitCommitment"
  /\ Step("waitRelay", wf)
  /\ UNCHANGED <<mpcVars, pureVars, vs, ld, rl>>

\* complete, step 5: poll contractD.commitments; the relayed commitment
\* arrives within the six attempts, or the script stores it directly
WfWaitRelay ==
  /\ wf.pc = "waitRelay"
  /\ \E relayed \in BOOLEAN :
       LET call == IF relayed /\ ld.version = "ContractD.sol"
                     THEN execute(ld, TRUE, wf.sessionId, wf.commitment)
                     ELSE storeCommitment(ld, wf.sessionId, wf.commitment)
       IN ld' = [call.st EXCEPT
                   !.ret = Ret(IF relayed THEN "relayed" ELSE "storeCommitment",
                               <<wf.sessionId, wf.commitment>>, call.ok,
                               call.error)]
  /\ Step("submitVDFProof", wf)
  /\ UNCHANGED <<mpcVars, pureVars, vs, rl>>

\* fast, step 3a: contractD.storeCommitment(sessionId, commitment)
WfStoreCommitment ==
  /\ wf.pc = "storeCommitment"
  /\ LET call == storeCommitment(ld, wf.sessionId, wf.commitment)
     IN ld' = [call.st EXCEPT
                 !.ret = Ret("storeCommitment", <<wf.sessionId, wf.commitment>>,
                             call.ok, call.error)]
  /\ Step("submitVDFProof", wf)
  /\ UNCHANGED <<mpcVars, pureVars, vs, rl>>

\* contractD.submitVDFProof(sessionId, vdfOutputBytes32, vdfProofHash); a
\* revert is caught and logged
WfSubmitVDFProof ==
  /\ wf.pc = "submitVDFProof"
  /\ LET args == <<wf.sessionId, wf.vdfOutputBytes32, wf.vdfProofHash>>
         call == submitVDFProof(ld, args[1], args[2], args[3])
     IN ld' = [call.st EXCEPT
                 !.ret = Ret("submitVDFProof", args, call.ok, call.error)]
  /\ Step("submitSeed", wf)
  /\ UNCHANGED <<mpcVars, pureVars, vs, rl>>

\* reconstructSeed(availableNodes), reconstructedHex, contractD.submitSeed;
\* a revert is caught and logged
WfSubmitSeed ==
  /\ wf.pc = "submitSeed"
  /\ LET picked == [k \in 1..Len(availableNodes) |->
                      wf.shares[availableNodes[k]]]
         hex == W(reconstruct(slice0(picked, THRESHOLD)))
         call == submitSeed(ld, wf.sessionId, hex)
     IN /\ ld' = [call.st EXCEPT
                    !.ret = Ret("submitSeed", <<wf.sessionId, hex>>, call.ok,
                                call.error)]
        /\ Step("verifyFinal", [wf EXCEPT !.reconstructedHex = hex])
  /\ UNCHANGED <<mpcVars, pureVars, vs, rl>>

\* verifier.randomness(sessionId): OnChainVerifier has no such function, the
\* call throws and main() is left through its catch handler
WfVerifyFinal ==
  /\ wf.pc = "verifyFinal"
  /\ Step("exit(1)", wf)
  /\ UNCHANGED <<mpcVars, pureVars, vs, ld, rl>>

WfNext ==
  \/ WfRequestRandomness
  \/ WfCollectCommitments
  \/ WfCollectReveals
  \/ WfCombineSeed
  \/ WfVdf
  \/ WfSubmitCommitment
  \/ WfWaitRelay
  \/ WfStoreCommitment
  \/ WfSubmitVDFProof
  \/ WfSubmitSeed
  \/ WfVerifyFinal

SpecWorkflow == WfInit /\ [][WfNext]_vars

\* ============================================================
\* CLAIMS
\* ============================================================

ValidIds(ids) == \A k \in 1..Len(ids) : ids[k] \in Ids

\* C1: after the four phases have run in order, reconstructSeed of any list
\* of at least t distinct ids of the session's nodes returns exactly the
\* value combineSeed returned.
C1_ReconstructEqualsCombined ==
  (/\ phase = "SHARED"
   /\ ret.op = "reconstructSeed"
   /\ t \in 1..n
   /\ Len(ret.args) >= t
   /\ Distinct(ret.args)
   /\ ValidIds(ret.args))
  => (ret.ok /\ ret.value = combinedSeed[1])

\* C2: reconstruct of any t of the n shares of split(S, n, t), S a field
\* element, returns S, whatever coefficients split drew.
C2_RoundTrip ==
  (ss.pc = "done" /\ ss.secret < PRIME /\ Len(ss.picked) = ss.t)
  => ss.value = ss.secret

C2_Witness ==
  /\ ss.pc = "done"
  /\ ss.t = 3
  /\ ss.picked = <<3, 1, 2>>
  /\ ss.secret = 5
  /\ ss.coefs = <<4, 6>>
  /\ ss.value = 5

\* C3: once collectReveals has thrown on a commitment mismatch, no later
\* combineSeed, distributeSharesToNodes or reconstructSeed returns normally.
C3_AbortedProducesNothing ==
  aborted => ~(ret.ok /\ ret.op \in {"combineSeed", "distributeSharesToNodes",
                                     "reconstructSeed"})

\* the operation is called before the phase it needs has completed
OutOfOrder(ph, op) ==
  \/ ph = "INIT" /\ op \in {"collectReveals", "combineSeed",
                            "distributeSharesToNodes", "reconstructSeed"}
  \/ ph = "COMMITTED" /\ op \in {"combineSeed", "distributeSharesToNodes",
                                 "reconstructSeed"}
  \/ ph = "REVEALED" /\ op \in {"distributeSharesToNodes", "reconstructSeed"}
  \/ ph = "COMBINED" /\ op = "reconstructSeed"

\* C4: a coordinator operation called before the preceding phase has
\* completed fails.
C4_StrictOrder == [][OutOfOrder(phase, ret'.op) => ~ret'.ok]_vars

\* C5: once a node has generated its contribution and commitment they never
\* change, and a second generateLocalRandomness on the node fails.
C5_GenerateOnce ==
  [][\A id \in Ids :
       commitment[id] # NULL =>
         /\ commitment'[id] = commitment[id]
         /\ localRandomness'[id] = localRandomness[id]
         /\ (ret'.op = "generateLocalRandomness" /\ ret'.args = <<id>>) => ~ret'.ok
    ]_vars

\* C6: once every node's commitment has been recorded, the recorded
\* commitments never change and a further collectCommitments is rejected.
C6_CommitmentsFrozen ==
  [][(\A id \in Ids : commitments[id] # NULL) =>
       /\ commitments' = commitments
       /\ ret'.op = "collectCommitments" => ~ret'.ok
    ]_vars

\* C7: reconstructSeed with fewer than t ids throws and returns no seed;
\* with exactly t distinct ids of the session's nodes it returns a field
\* element.
C7_ThresholdBoundary ==
  ret.op = "reconstructSeed" =>
    /\ Len(ret.args) < t => (~ret.ok /\ ret.value = "Need at least t nodes")
    /\ (Len(ret.args) = t /\ Distinct(ret.args) /\ ValidIds(ret.args))
         => (ret.ok /\ ret.value \in 0..(PRIME - 1))

C7_Witness ==
  /\ phase = "SHARED"
  /\ t = 2
  /\ ret.op = "reconstructSeed"
  /\ ret.args = <<2>>
  /\ ~ret.ok

\* C8: reconstruct given fewer than t shares of a secret split with
\* threshold t fails instead of returning a value.
C8_FewerSharesFail ==
  (ss.pc = "done" /\ Len(ss.picked) < ss.t) => ~ss.ok

\* C9: reconstructSeed rejects a list of at least t ids that repeats an id,
\* names a node outside the session or names a node holding no share.
C9_InvalidListsRejected ==
  (/\ ret.op = "reconstructSeed"
   /\ t >= 1
   /\ Len(ret.args) >= t
   /\ \/ ~Distinct(ret.args)
      \/ ~ValidIds(ret.args)
      \/ \E k \in 1..Len(ret.args) : ret.args[k] \in Ids /\ share[ret.args[k]] = NULL)
  => ~ret.ok

\* C10: the combined seed of a set of recorded reveals is the same for every
\* order in which they were recorded.
C10_OrderIndependent ==
  cs.pc = "done" => cs.value = combine(cs.entries)

C10_Witness ==
  /\ cs.pc = "done"
  /\ Len(cs.entries) = 3
  /\ cs.order = <<3, 1, 2>>
  /\ cs.entries[1].randomness = <<0, 1, 1>>
  /\ cs.entries[2].randomness = <<1, 1, 0>>
  /\ cs.entries[3].randomness = <<1, 0, 0>>
  /\ cs.value = 1

\* ------------------------------------------------------------
\* VDF claims (SpecVDF)
\* ------------------------------------------------------------

\* T is a power of two and at least 2
ValidT(T) == T >= 2 /\ \E k \in 1..T : Pow2(k) = T

\* x^e mod N as the product of e factors x, multiplied pairwise
RECURSIVE NaivePow(_, _, _)
NaivePow(x, e, N) ==
  IF e = 0 THEN 1 % N
  ELSE IF e = 1 THEN x % N
  ELSE (NaivePow(x, e \div 2, N) * NaivePow(x, e - (e \div 2), N)) % N

\* p and q have the same length and differ in exactly one position
OneReplaced(p, q) ==
  /\ Len(p) = Len(q)
  /\ Cardinality({i \in 1..Len(p) : p[i] # q[i]}) = 1

\* C11: completeness.  For an instance whose T is a power of two >= 2 and
\* an input x in [0, N), verify(x, eval(x), prove(x, eval(x))) returns true.
C11_Completeness ==
  (/\ vs.pc = "verified"
   /\ ValidT(vs.T)
   /\ vs.x < vs.N
   /\ vs.vy = vs.y
   /\ vs.vproof = vs.proof) => vs.valid

C11_Witness ==
  /\ vs.pc = "verified"
  /\ vs.T = 8
  /\ vs.x > 1
  /\ vs.y > 1
  /\ vs.vy = vs.y
  /\ vs.vproof = vs.proof
  /\ Len(vs.proof) = 3
  /\ vs.valid

\* C12: for y = eval(x) and proof = prove(x, y), verify(x, y, proof') returns
\* false for every proof' that differs from proof in exactly one element.
C12_MutatedProofRejected ==
  (/\ vs.pc = "verified"
   /\ ValidT(vs.T)
   /\ vs.x < vs.N
   /\ vs.vy = vs.y
   /\ OneReplaced(vs.vproof, vs.proof)) => ~vs.valid

\* C13: for every x and every y' in [0, N) other than eval(x),
\* verify(x, y', prove(x, eval(x))) returns false.
C13_WrongOutputRejected ==
  (/\ vs.pc = "verified"
   /\ ValidT(vs.T)
   /\ vs.x < vs.N
   /\ vs.vy # vs.y
   /\ vs.vproof = vs.proof) => ~vs.valid

\* C14: eval(x) is x^(2^T) mod N for every x >= 0 and T >= 0, reached by
\* exactly T squarings from x mod N, every intermediate value in [0, N).
C14_EvalIsRepeatedSquaring ==
  vs.pc = "evaluated" =>
    /\ Len(vs.trace) = vs.T + 1
    /\ vs.trace[1] = vs.x % vs.N
    /\ \A i \in 0..vs.T :
         /\ vs.trace[i + 1] \in 0..(vs.N - 1)
         /\ vs.trace[i + 1] = NaivePow(vs.x, Pow2(i), vs.N)
    /\ vs.y = NaivePow(vs.x, Pow2(vs.T), vs.N)

C14_Witness ==
  /\ vs.pc = "evaluated"
  /\ vs.T = 5
  /\ vs.x = vs.N
  /\ vs.y = 0
  /\ Len(vs.trace) = 6

\* C20: an instance whose T is not a power of two >= 2 cannot be
\* constructed, so no eval, prove or verify ever runs on one.
C20_InvalidTRejected ==
  vs.pc \in {"new", "evaluated", "proved", "verified"} => ValidT(vs.T)

\* ------------------------------------------------------------
\* Chain B claims (SpecLedger)
\* ------------------------------------------------------------

\* the last transaction was a call of op
LastTx(op) == ld.pc = "deployed" /\ ld.ret.op = op

\* C15: a VDF output is recorded for a session only if it is the VDF
\* evaluation of the input derived from the session's stored commitment and
\* comes with the proof of that evaluation; any other submitVDFProof call is
\* rejected and leaves vdfOutputs unchanged.
C15_OnlyVerifiedOutputRecorded ==
  (LastTx("submitVDFProof") /\ ld.ret.ok) =>
    LET s == ld.ret.args[1]
        Y == ld.ret.args[2]
        pi == ld.ret.args[3]
        y == honestOutput(ld.commitments[s])
    IN /\ Y \in {vdfOutputBytes32(y), vdfOutputBytes32Fast(y)}
       /\ pi = honestProofHash(ld.commitments[s])

\* C16: submitSeed succeeds exactly when a non-zero VDF output is on record
\* for the session and keccak256 of the seed is the stored commitment; in
\* every other case it reverts and nothing changes, the verifier's state
\* included.
C16_SubmitSeedChecks ==
  [][(ld'.ret.op = "submitSeed" /\ ld' # ld) =>
       LET s == ld'.ret.args[1]
           seed == ld'.ret.args[2]
       IN /\ ld'.ret.ok <=> (/\ ld.vdfOutputs[s] # Zero
                             /\ keccak256(<<seed>>) = ld.commitments[s])
          /\ ~ld'.ret.ok => ld' = [ld EXCEPT !.ret = ld'.ret]
          /\ ld'.commitments = ld.commitments
          /\ ld'.vdfOutputs = ld.vdfOutputs]_vars

C16_Witness ==
  /\ LastTx("submitSeed")
  /\ ld.ret.ok
  /\ ld.ret.args = <<2, W(1)>>
  /\ ld.commitments[2] = keccak256(<<W(1)>>)
  /\ ld.vdfOutputs[2] = W(1)
  /\ ld.lastSessionId = 2
  /\ ld.lastRandomness # Zero

\* C17: the randomness delivered by a successful submitSeed is hash(Y || S)
\* of the VDF output Y on record and the accepted seed S, and it equals the
\* value the workflow recomputes off-chain from the same Y and S.
C17_FinalRandomnessIsHash ==
  (LastTx("submitSeed") /\ ld.ret.ok) =>
    LET s == ld.ret.args[1]
        seed == ld.ret.args[2]
    IN /\ ld.lastSessionId = s
       /\ ld.lastRandomness = expectedRandomness(ld.vdfOutputs[s], seed)

C17_Witness ==
  /\ LastTx("submitSeed")
  /\ ld.ret.ok
  /\ ld.ret.args = <<1, Zero>>
  /\ ld.commitments[1] = keccak256(<<Zero>>)
  /\ ld.vdfOutputs[1] = vdfOutputBytes32(honestOutput(ld.commitments[1]))
  /\ ld.lastSessionId = 1
  /\ ld.lastRandomness = keccak256(<<W(4), Zero>>)

\* ------------------------------------------------------------
\* Relayer claims (SpecRelayLive)
\* ------------------------------------------------------------

\* C19: every MessageSent event is eventually forwarded as a receiveMessage
\* call with the same payload that takes effect on chain B, so every
\* commitment, VDF proof and seed sent on chain A eventually reaches
\* ContractD.
C19_EveryMessageDelivered ==
  \A i \in 1..SessionMessages :
    (rl.pc = "listening" /\ Len(rl.events) >= i)
      ~> (rl.pc = "listening" /\ i \in rl.delivered)

\* ------------------------------------------------------------
\* Workflow claims (SpecWorkflow)
\* ------------------------------------------------------------

\* the steps that submit the commitment to a ledger
Publication == {"SubmitCommitment", "storeCommitment"}

\* C18: in every run of a workflow the commitment is published before any
\* reveal is accepted: no collectReveals step precedes the publication step.
C18_PublishedBeforeReveal ==
  wf.pc # "idle" =>
    \A i \in 1..Len(wf.log) :
      wf.log[i] = "collectReveals" =>
        \E j \in 1..(i - 1) : wf.log[j] \in Publication

\* ------------------------------------------------------------
\* Coordinator construction, field arithmetic, share distribution
\* ------------------------------------------------------------

\* C21: a coordinator whose threshold is below 1 or above its node count is
\* never constructed, so collectCommitments never opens a session on a
\* coordinator whose threshold lies outside [1, n].
C21_ThresholdInRange ==
  ret.op = "collectCommitments" => (t >= 1 /\ t <= n)

\* C22: FiniteField.inv(b) and FiniteField.div(a, b) return no value when b
\* is congruent to 0 modulo the prime.
C22_DivisionByZeroFails ==
  (ff.pc = "done" /\ ff.op \in {"inv", "div"} /\ mod(ff.b, PRIME) = 0) => ~ff.ok

\* C23: the value every FiniteField operation returns lies in [0, PRIME),
\* whatever the signs of the operands.
C23_ResultsReduced ==
  ff.pc = "done" => (ff.value >= 0 /\ ff.value < PRIME)

\* a subtraction of a negative operand whose difference is negative as well
C23_Witness ==
  /\ ff.pc = "done"
  /\ ff.op = "sub"
  /\ ff.a < 0
  /\ ff.a - ff.b < 0
  /\ ff.value = (ff.a - ff.b) % PRIME

IsPow2(T) == \E k \in 0..T : Pow2(k) = T

Log2(T) == CHOOSE k \in 0..T : Pow2(k) = T

\* the halfway values of the halving steps: step i takes the current pair
\* (x_i, y_i) and the current T_i, its halfway value is x_i^(2^(T_i / 2)) mod N,
\* and the next pair is folded with the challenge drawn from them
RECURSIVE HalfwayValues(_, _, _, _)
HalfwayValues(T, currX, currY, N) ==
  IF T < 2 THEN <<>>
  ELSE LET mu == NaivePow(currX, Pow2(T \div 2), N)
           r == hashToChallenge(currX, currY, mu, N)
       IN  <<mu>> \o HalfwayValues(T \div 2, nextX(currX, mu, r, N),
                                   nextY(currY, mu, r, N), N)

\* C25: for T a power of two, prove returns log2(T) elements, each in [0, N),
\* element i being the halfway value of halving step i.
C25_ProofShape ==
  (vs.pc \in {"proved", "verified"} /\ IsPow2(vs.T)) =>
    /\ Len(vs.proof) = Log2(vs.T)
    /\ \A i \in 1..Len(vs.proof) : vs.proof[i] >= 0 /\ vs.proof[i] < vs.N
    /\ vs.proof = HalfwayValues(vs.T, vs.x, vs.y, vs.N)

\* a proof of three elements that are not all the same
C25_Witness ==
  /\ vs.pc = "proved"
  /\ vs.T = 8
  /\ Len(vs.proof) = 3
  /\ vs.proof[1] # vs.proof[2]
  /\ vs.proof[2] # vs.proof[3]
  /\ vs.proof[1] > 1

\* C26: for T a power of two, verify given a proof of fewer than log2(T)
\* elements returns false.
C26_ShortProofRejected ==
  (/\ vs.pc = "verified"
   /\ IsPow2(vs.T)
   /\ Len(vs.vproof) < Log2(vs.T)) => vs.valid = FALSE

\* the computed output with the computed proof less its last element
C26_Witness ==
  /\ vs.pc = "verified"
  /\ vs.T = 8
  /\ vs.vy = vs.y
  /\ Len(vs.vproof) = 2
  /\ vs.vproof = SubSeq(vs.proof, 1, 2)
  /\ vs.valid = FALSE

\* ------------------------------------------------------------
\* One honest contributor, the shares of a split
\* ------------------------------------------------------------

\* the recorded entries with the contribution of entry i replaced by b
WithContribution(entries, i, b) == [entries EXCEPT ![i].randomness = b]

\* C27: with the other contributions fixed, the map from one node's
\* contribution to the combined seed is one-to-one and onto the values of
\* the seed's width.
C27_OneHonestContributor ==
  cs.pc = "done" =>
    \A i \in 1..Len(cs.entries) :
      /\ \A b \in Buffers :
           combine(WithContribution(cs.entries, i, b)) = cs.value
             => b = cs.entries[i].randomness
      /\ \A v \in SeedVals :
           \E b \in Buffers : combine(WithContribution(cs.entries, i, b)) = v

\* three contributions, no two the same, folded to a seed that is none of them
C27_Witness ==
  /\ cs.pc = "done"
  /\ Len(cs.entries) = 3
  /\ cs.entries[1].randomness # cs.entries[2].randomness
  /\ cs.entries[2].randomness # cs.entries[3].randomness
  /\ cs.entries[1].randomness # cs.entries[3].randomness
  /\ \A i \in 1..3 : cs.value # bufferToBigInt(cs.entries[i].randomness, SeedBytes)

\* c[1] + c[2] * x + ... + c[k] * x^(k-1) over the integers, from term j on
RECURSIVE PolyAt(_, _, _)
PolyAt(c, x, j) ==
  IF j > Len(c) THEN 0 ELSE c[j] * (x ^ (j - 1)) + PolyAt(c, x, j + 1)

\* C28: split(secret, n, t) returns n shares, share i has x = i and
\* y = f(i) mod PRIME for the polynomial f of degree at most t - 1 whose
\* constant term is the secret and whose other coefficients are the drawn
\* ones; for t = 1 every y is the secret mod PRIME.
C28_SplitShares ==
  ss.pc \in {"split", "done"} =>
    /\ Len(ss.shares) = ss.n
    /\ Len(ss.coefs) <= ss.t - 1
    /\ \A i \in 1..ss.n :
         /\ ss.shares[i].x = i
         /\ ss.shares[i].y = PolyAt(<<ss.secret>> \o ss.coefs, i, 1) % PRIME
         /\ ss.t = 1 => ss.shares[i].y = ss.secret % PRIME

\* a secret that is not a field element, split 3-of-3 with a polynomial of
\* degree 2
C28_Witness ==
  /\ ss.pc = "split"
  /\ ss.secret = PRIME
  /\ ss.n = 3
  /\ ss.t = 3
  /\ ss.coefs[2] # 0
  /\ ss.shares[1].y # ss.shares[2].y
  /\ ss.shares[3].y # 0

\* ------------------------------------------------------------
\* The coordinator and the nodes' contributions
\* ------------------------------------------------------------

\* the calls C29 names
ReadingCalls ==
  {"collectReveals", "combineSeed", "distributeSharesToNodes",
   "reconstructSeed", "getCommitment"}

\* every reveal recorded in after is a reveal recorded in before, or is the
\* contribution of its node as the node holds it
RevealsIntact(before, after) ==
  \A k \in 1..Len(after) :
    \/ k <= Len(before) /\ after[k] = before[k]
    \/ after[k].randomness = localRandomness[after[k].id]

FirstShares(ids, k) == [j \in 1..k |-> share[ids[j]]]

\* C30: a reconstructSeed call given more than t distinct valid ids returns
\* what reconstructSeed returns for the first t ids of the list, which is the
\* value reconstructed from the shares of exactly those t nodes.
C30_FirstTSharesUsed ==
  (/\ ret.op = "reconstructSeed"
   /\ Distinct(ret.args)
   /\ ValidIds(ret.args)
   /\ Len(ret.args) > t) =>
    LET first == SubSeq(ret.args, 1, t)
    IN  /\ ret.ok
        /\ ~tooFew(first)
        /\ ret.value = reconstructSeedValue(first)
        /\ ret.value = reconstruct(FirstShares(ret.args, t))

\* three ids given to a 2-of-3 coordinator whose shares are not all the same
C30_Witness ==
  /\ ret.op = "reconstructSeed"
  /\ ret.ok
  /\ n = 3
  /\ t = 2
  /\ ret.args = <<3, 1, 2>>
  /\ share[1].y # share[2].y
  /\ share[3].y # share[1].y

\* ------------------------------------------------------------
\* Field inverse, division and power
\* ------------------------------------------------------------

\* C38: for a not congruent to 0, mul(a, inv(a)) = 1 and
\* div(mul(a, b), a) = b mod PRIME; pow(base, e) is base^e mod PRIME for
\* e >= 0.
C38_InverseDivisionPower ==
  /\ (ff.pc = "done" /\ ff.op = "inv" /\ mod(ff.b, PRIME) # 0) =>
       mul(ff.b, ff.value, PRIME) = 1
  /\ (ff.pc = "done" /\ ff.op = "mul" /\ mod(ff.a, PRIME) # 0) =>
       div(ff.value, ff.a, PRIME) = ff.b % PRIME
  /\ (ff.pc = "done" /\ ff.op = "pow" /\ ff.b >= 0) =>
       ff.value = NaivePow(ff.a, ff.b, PRIME)

\* the inverse of a negative operand that is neither 1 nor -1 in the field
C38_Witness ==
  /\ ff.pc = "done"
  /\ ff.op = "inv"
  /\ ff.b < 0
  /\ ff.b % PRIME \notin {0, 1, PRIME - 1}
  /\ ff.value # ff.b % PRIME
  /\ (ff.value * (ff.b % PRIME)) % PRIME = 1

\* ------------------------------------------------------------
\* Pietrzak VDF: proofs longer than log2(T)
\* ------------------------------------------------------------

\* C37: for y = eval(x) and proof = prove(x, y), verify returns false for the
\* proof with extra elements appended.
C37_ExtendedProofRejected ==
  (/\ vs.pc = "verified"
   /\ ValidT(vs.T)
   /\ vs.x < vs.N
   /\ vs.vy = vs.y
   /\ Len(vs.vproof) > Len(vs.proof)
   /\ SubSeq(vs.vproof, 1, Len(vs.proof)) = vs.proof) => ~vs.valid

\* ------------------------------------------------------------
\* Workflow scripts: the VDF input
\* ------------------------------------------------------------

\* C31: in both workflows, once the VDF block has run, the VDF input x is the
\* integer value of the published commitment reduced mod N.
C31_InputFromCommitment ==
  (\E k \in 1..Len(wf.log) : wf.log[k] = "vdf") =>
    wf.x = BigIntOf(wf.commitment) % WorkflowN

\* ------------------------------------------------------------
\* Chain B: write-once commitments, one randomness per session, the verifier
\* ------------------------------------------------------------

\* C32: once a commitment is stored for a session id, no later call changes
\* commitments[sessionId].
C32_CommitmentWriteOnce ==
  [][ld.pc = "deployed" =>
       \A s \in Sessions :
         ld.commitments[s] # Zero => ld'.commitments[s] = ld.commitments[s]]_vars

\* the verifier holds a randomness that a successful submitSeed delivered
\* for session s: only submitSeed delivers a hash
DeliveredFor(s) ==
  ld.lastSessionId = s /\ ld.lastRandomness[1] = "keccak256"

\* C33: two successful submitSeed calls for the same session id deliver the
\* same finalRandomness: a successful submitSeed for the session whose
\* delivered randomness the verifier holds delivers that randomness again.
C33_OneRandomnessPerSession ==
  [][(/\ ld.pc = "deployed"
      /\ ld'.ret.op = "submitSeed" /\ ld'.ret.ok
      /\ DeliveredFor(ld'.ret.args[1])) =>
       ld'.lastRandomness = ld.lastRandomness]_vars

\* C34: the verifier's lastSessionId and lastRandomness change only in a
\* successful ContractD.submitSeed.
C34_VerifierWrittenBySubmitSeed ==
  [][(/\ ld.pc = "deployed"
      /\ \/ ld'.lastRandomness # ld.lastRandomness
         \/ ld'.lastSessionId # ld.lastSessionId) =>
       (ld'.ret.op = "submitSeed" /\ ld'.ret.ok)]_vars

\* C35: execute stores the relayed commitment only when the gateway approved
\* the message and its source is the configured source contract on the
\* configured source chain; every other call reverts and leaves commitments
\* unchanged.
C35_ExecuteChecksSource ==
  [][(ld.pc = "deployed" /\ ld'.ret.op = "execute") =>
       LET approved == ld'.ret.args[1]
           sourceChain == ld'.ret.args[2]
           sourceAddress == ld'.ret.args[3]
           fromSource == /\ approved
                         /\ sourceChain = SOURCE_CHAIN
                         /\ sourceAddress = ld.sourceContract
       IN  /\ ld'.ret.ok => fromSource
           /\ ~fromSource => ld'.commitments = ld.commitments]_vars

\* ------------------------------------------------------------
\* Relayer: order of delivery
\* ------------------------------------------------------------

\* C36: payloads reach the destination gateway in the order their
\* MessageSent events were emitted: when the payload of event i has been
\* handed to receiveMessage, so has the payload of every earlier event; a
\* seed is not executed before the VDF proof sent before it.
C36_RelayedInEmissionOrder ==
  rl.pc = "listening" =>
    \A i \in rl.done : \A j \in 1..(i - 1) : j \in rl.done

====
